---- MODULE Spec2Model ----
(***************************************************************************)
(* Model of ipamd/rpc_handler.go: the gRPC handlers AddNetwork and         *)
(* DelNetwork, run on concurrent workers, and the shutdownListener         *)
(* goroutine.  The datastore, the range provider and the terminating flag  *)
(* live in other packages of the repository; they are modelled by their    *)
(* contract.                                                               *)
(***************************************************************************)
EXTENDS Integers, Sequences, FiniteSets, TLC

\* ---------------------------------------------------------------- bounds
NumWorkers == 2
MaxCalls == 2

Workers == 1..NumWorkers

\* ---------------------------------------------------------------- values
Names == {"pod-a", "pod-b"}
Namespaces == {"ns1"}
ContainerIDs == {"c1", "c2"}
Reasons == {"PodDeleted", "Crash"}

\* Keys of the datastore: the container ID is empty for a pod restored after
\* a daemon restart.
PodKeys == [Name : Names, Namespace : Namespaces, Container : ContainerIDs \cup {""}]

Addrs == {"10.0.1.5", "10.0.2.7"}
NoIP == ""

Nil == "nil"
ErrUnknownPod == "ErrUnknownPod"
ErrOther == "ErrOther"
Errors == {ErrUnknownPod, ErrOther}

Signals == {"SIGINT", "SIGTERM"}

\* What the range provider and the source-NAT policy may be configured to.
ProviderChoices ==
    {[vpc |-> <<"10.0.0.0/16">>, snat |-> FALSE, exclude |-> <<"192.168.0.0/16">>],
     [vpc |-> <<"10.0.0.0/16", "10.1.0.0/16">>, snat |-> FALSE,
      exclude |-> <<"192.168.0.0/16", "172.16.0.0/12">>],
     [vpc |-> <<"10.0.0.0/16", "10.1.0.0/16">>, snat |-> TRUE,
      exclude |-> <<"192.168.0.0/16", "172.16.0.0/12">>]}

\* The pods the plugin sends requests for; pod-b is only ever a restored pod.
RequestNames == {"pod-a"}
AddRequests == [K8S_POD_NAME : RequestNames, K8S_POD_NAMESPACE : Namespaces,
                K8S_POD_INFRA_CONTAINER_ID : ContainerIDs, Reason : {""}]
DelRequests == [K8S_POD_NAME : RequestNames, K8S_POD_NAMESPACE : Namespaces,
                K8S_POD_INFRA_CONTAINER_ID : ContainerIDs, Reason : Reasons]
NoRequest == [K8S_POD_NAME |-> "", K8S_POD_NAMESPACE |-> "",
              K8S_POD_INFRA_CONTAINER_ID |-> "", Reason |-> ""]

VARIABLES
    podsIP,            \* datastore: pod key -> address, NoIP when none
    pool,              \* datastore: address -> "free" | "assigned"
    broken,            \* datastore: an internal fault has struck
    vpcCIDRs,          \* what awsClient.GetVPCIPv4CIDRs returns
    useExternalSNAT,   \* what networkClient.UseExternalSNAT returns
    excludeSNATCIDRs,  \* what networkClient.GetExcludeSNATCIDRs returns
    terminating,       \* IPAMContext's terminating flag
    sig,               \* the buffered channel of shutdownListener
    notify,            \* signals registered with signal.Notify
    lpc,               \* position of shutdownListener
    addIPCnt,          \* prometheus counter
    delIPCnt,          \* prometheus counter vector, by reason
    pc,                \* position of each worker
    op,                \* "add" | "del" | "none": the handler a worker runs
    in,                \* the request of each worker
    loc,               \* the handler's local variables
    ret,               \* the (reply, error) pair a worker returned
    trace,             \* history: datastore calls made by the worker's call
    provided,          \* history: what the providers returned to the worker's call
    started,           \* history: calls started
    addDone,           \* history: AddNetwork calls returned
    delDone,           \* history: DelNetwork calls returned, by reason
    store0,            \* history: podsIP when the latest call started
    solo,              \* history: worker whose call no other step overlapped
    repeat,            \* history: the call last started repeats the DelNetwork before it
    caught             \* history: workers in flight when terminating was set

storeVars == <<podsIP, pool, broken>>
providerVars == <<vpcCIDRs, useExternalSNAT, excludeSNATCIDRs>>
signalVars == <<terminating, sig, notify, lpc>>
counterVars == <<addIPCnt, delIPCnt>>
workerVars == <<pc, op, in, loc, ret, trace, provided>>
historyVars == <<started, addDone, delDone, store0, solo, repeat, caught>>
vars == <<storeVars, providerVars, signalVars, counterVars, workerVars, historyVars>>


\* ------------------------------------------------------------- datastore
\* Device number of the interface an address of the pool belongs to.
DeviceOf(a) == IF a = "10.0.1.5" THEN 1 ELSE 2

StoreResult(a, d, e, p, q) ==
    [addr |-> a, deviceNumber |-> d, err |-> e, podsIP |-> p, pool |-> q]

\* datastore.AssignPodIPv4Address, run atomically under the datastore's lock:
\* the outcomes of assigning an address to pod key k.  A pod that already has
\* an address, an empty pool or an internal fault is an error; the contract
\* leaves its kind open.
AssignPodIPv4Address(k) ==
    IF broken \/ podsIP[k] # NoIP \/ {a \in Addrs : pool[a] = "free"} = {}
    THEN {StoreResult("", 0, e, podsIP, pool) : e \in Errors}
    ELSE {StoreResult(a, DeviceOf(a), Nil,
                      [podsIP EXCEPT ![k] = a], [pool EXCEPT ![a] = "assigned"])
            : a \in {b \in Addrs : pool[b] = "free"}}

\* An Unassign that matches on name and namespace alone, whatever the container
UnassignAnyContainer(k) ==
    LET held == {h \in PodKeys : /\ h.Name = k.Name /\ h.Namespace = k.Namespace
                                  /\ podsIP[h] # NoIP}
        h == CHOOSE x \in held : TRUE
    IN  IF held = {} THEN StoreResult("", 0, ErrUnknownPod, podsIP, pool)
        ELSE IF broken THEN StoreResult("", 0, ErrOther, podsIP, pool)
        ELSE StoreResult(podsIP[h], DeviceOf(podsIP[h]), Nil, [podsIP EXCEPT ![h] = NoIP],
                         [pool EXCEPT ![podsIP[h]] = "free"])

\* An Unassign that hands the address back to the pool and returns it but
\* leaves the pod's entry in place
UnassignLeavesEntry(k) ==
    IF podsIP[k] = NoIP THEN StoreResult("", 0, ErrUnknownPod, podsIP, pool)
    ELSE IF broken THEN StoreResult("", 0, ErrOther, podsIP, pool)
    ELSE StoreResult(podsIP[k], DeviceOf(podsIP[k]), Nil, podsIP,
                     [pool EXCEPT ![podsIP[k]] = "free"])

\* datastore.UnassignPodIPv4Address, atomic: an unknown key is ErrUnknownPod,
\* a known key in a store struck by a fault is another error, otherwise the
\* allocation is removed and returned.
UnassignPodIPv4Address(k) ==
    IF podsIP[k] = NoIP
    THEN StoreResult("", 0, ErrUnknownPod, podsIP, pool)
    ELSE IF broken
    THEN StoreResult("", 0, ErrOther, podsIP, pool)
    ELSE StoreResult(podsIP[k], DeviceOf(podsIP[k]), Nil,
                     [podsIP EXCEPT ![k] = NoIP], [pool EXCEPT ![podsIP[k]] = "free"])

\* ------------------------------------------------- handler, pure parts
\* int32(deviceNumber): the value modulo 2^32, in -2^31 .. 2^31 - 1
Int32(n) ==
    IF -2147483647 - 1 <= n /\ n <= 2147483647 THEN n
    ELSE ((n + 32768 * 65536) % (65536 * 65536)) - 32768 * 65536

\* Variant: the pod is identified without its container ID.
PodInfoNoContainer(r) == [Name |-> r.K8S_POD_NAME, Namespace |-> r.K8S_POD_NAMESPACE,
                          Container |-> ""]

\* &k8sapi.K8SPodInfo{Name, Namespace, Container} of a request
PodInfo(r) == [Name |-> r.K8S_POD_NAME, Namespace |-> r.K8S_POD_NAMESPACE,
               Container |-> r.K8S_POD_INFRA_CONTAINER_ID]

\* Variant: the retry repeats the first lookup, container ID included.
FallbackKeepsContainer(r) == PodInfo(r)

\* &k8sapi.K8SPodInfo{Name, Namespace}: Container is left at its zero value
FallbackPodInfo(r) == [Name |-> r.K8S_POD_NAME, Namespace |-> r.K8S_POD_NAMESPACE,
                       Container |-> ""]

\* Variant: each range is put in front of those already collected.
RECURSIVE PrependEach(_, _)
PrependEach(dst, src) ==
    IF src = <<>> THEN dst ELSE PrependEach(<<Head(src)>> \o dst, Tail(src))

\* for _, cidr := range src { dst = append(dst, cidr) }
RECURSIVE AppendEach(_, _)
AppendEach(dst, src) ==
    IF src = <<>> THEN dst ELSE AppendEach(Append(dst, Head(src)), Tail(src))

\* if !useExternalSNAT
WithExclusions(snat) == ~snat

\* Variant: ErrUnknownPod counts as success, as it does in DelNetwork.
AddNetworkReplyLenient(err, addr, deviceNumber, snat, cidrs) ==
    [Success |-> err \in {Nil, ErrUnknownPod}, IPv4Addr |-> addr, IPv4Subnet |-> "",
     DeviceNumber |-> Int32(deviceNumber), UseExternalSNAT |-> snat, VPCcidrs |-> cidrs]

\* pb.AddNetworkReply{...}
AddNetworkReply(err, addr, deviceNumber, snat, cidrs) ==
    [Success |-> err = Nil, IPv4Addr |-> addr, IPv4Subnet |-> "",
     DeviceNumber |-> Int32(deviceNumber), UseExternalSNAT |-> snat, VPCcidrs |-> cidrs]

\* Variant: the retry is made after any error.
RetryOnAnyError(err) == err # Nil

\* Variant: the retry is made whatever the first attempt returned
AlwaysFallback(err) == TRUE

\* if err != nil && err == datastore.ErrUnknownPod
NeedFallback(err) == err # Nil /\ err = ErrUnknownPod

\* Variant: every error of the last attempt, ErrUnknownPod too, is a failure.
DelSuccessStrict(err) == err = Nil

\* success := true; if err != nil && err != datastore.ErrUnknownPod { success = false }
DelSuccess(err) == IF err # Nil /\ err # ErrUnknownPod THEN FALSE ELSE TRUE

\* Variant: the reply reports success whatever the datastore returned.
DelNetworkReplyAlwaysOK(err, ip, deviceNumber) ==
    [Success |-> TRUE, IPv4Addr |-> ip, DeviceNumber |-> Int32(deviceNumber)]

\* pb.DelNetworkReply{...}
DelNetworkReply(err, ip, deviceNumber) ==
    [Success |-> DelSuccess(err), IPv4Addr |-> ip, DeviceNumber |-> Int32(deviceNumber)]

\* return &resp, nil
Return(resp) == [reply |-> resp, err |-> Nil]

NoLocals == [addr |-> "", deviceNumber |-> 0, err |-> Nil, pbVPCcidrs |-> <<>>,
             useExternalSNAT |-> FALSE]
NoReturn == [reply |-> "none", err |-> "none"]
NoProvided == [vpc |-> <<>>, snat |-> FALSE, exclude |-> <<>>, snatReads |-> 0,
               excludeReads |-> 0, raced |-> FALSE]

\* Variant: every release is counted under one fixed label.
FixedLabel(r) == "PodDeleted"

\* prometheus.Labels{"reason": in.Reason}
ReasonLabel(r) == r.Reason

\* Counter.Inc()
Inc(c) == c + 1

InFlight(w) == pc[w] \notin {"idle", "returned"}

\* The datastore as a call that runs alone found it.
Snapshot == [podsIP |-> podsIP, broken |-> broken]
NoSnapshot == [podsIP |-> [k \in PodKeys |-> NoIP], broken |-> TRUE]

\* ------------------------------------------------------------------ Init
\* The datastore after construction: empty, or holding the pods restored after
\* a restart, each under its name and namespace only.
RestoredIP(k) == IF k.Name = "pod-a" THEN "10.0.1.5" ELSE "10.0.2.7"
RestoredStores ==
    {[k \in PodKeys |-> IF k.Container = "" /\ k.Name \in S THEN RestoredIP(k) ELSE NoIP]
        : S \in {{}, Names}}

InitFrom(stores) ==
    /\ podsIP \in stores
    /\ pool = [a \in Addrs |-> IF \E k \in PodKeys : podsIP[k] = a THEN "assigned" ELSE "free"]
    /\ \E c \in ProviderChoices :
        /\ vpcCIDRs = c.vpc
        /\ useExternalSNAT = c.snat
        /\ excludeSNATCIDRs = c.exclude
    /\ broken = FALSE
    /\ terminating = FALSE
    /\ sig = <<>>
    /\ notify = {}
    /\ lpc = "start"
    /\ addIPCnt = 0
    /\ delIPCnt = [r \in Reasons |-> 0]
    /\ pc = [w \in Workers |-> "idle"]
    /\ op = [w \in Workers |-> "none"]
    /\ in = [w \in Workers |-> NoRequest]
    /\ loc = [w \in Workers |-> NoLocals]
    /\ ret = [w \in Workers |-> NoReturn]
    /\ trace = [w \in Workers |-> <<>>]
    /\ provided = [w \in Workers |-> NoProvided]
    /\ started = 0
    /\ addDone = 0
    /\ delDone = [r \in Reasons |-> 0]
    /\ store0 = NoSnapshot
    /\ solo = 0
    /\ repeat = FALSE
    /\ caught = {}

\* The state after construction
Init == InitFrom(RestoredStores)

\* The datastore after a restart that restored any of the pods
RestartStores ==
    {[k \in PodKeys |-> IF k.Container = "" /\ k.Name \in S THEN RestoredIP(k) ELSE NoIP]
        : S \in SUBSET Names}

\* The state after construction when the restart restored any of the pods
RestartInit == InitFrom(RestartStores)


\* ------------------------------------------------------- call bookkeeping
\* A call dispatched to worker w: the history variables at its start.
StartCall(w) ==
    /\ ~InFlight(w)
    /\ started < MaxCalls
    /\ started' = started + 1
    /\ solo' = IF \A v \in Workers \ {w} : ~InFlight(v) THEN w ELSE 0
    /\ store0' = IF solo' = w THEN Snapshot ELSE NoSnapshot

Called(k, r) == [pod |-> k, addr |-> r.addr, deviceNumber |-> r.deviceNumber, err |-> r.err]

\* ------------------------------------------------------------ AddNetwork
\* Entry and s.ipamContext.dataStore.AssignPodIPv4Address(...)
AddAssign(w, r) ==
    /\ StartCall(w)
    /\ \E res \in AssignPodIPv4Address(PodInfo(r)) :
        /\ podsIP' = res.podsIP
        /\ pool' = res.pool
        /\ UNCHANGED broken
        /\ loc' = [loc EXCEPT ![w] = [NoLocals EXCEPT !.addr = res.addr,
                                        !.deviceNumber = res.deviceNumber, !.err = res.err]]
        /\ trace' = [trace EXCEPT ![w] = <<Called(PodInfo(r), res)>>]
    /\ op' = [op EXCEPT ![w] = "add"]
    /\ in' = [in EXCEPT ![w] = r]
    /\ ret' = [ret EXCEPT ![w] = NoReturn]
    /\ provided' = [provided EXCEPT ![w] = NoProvided]
    /\ pc' = [pc EXCEPT ![w] = "add_vpc"]
    /\ repeat' = FALSE
    /\ UNCHANGED <<providerVars, signalVars, counterVars, addDone, delDone, caught>>

\* for _, cidr := range s.ipamContext.awsClient.GetVPCIPv4CIDRs() {...}
AddVPCcidrs(w) ==
    /\ pc[w] = "add_vpc"
    /\ loc' = [loc EXCEPT ![w].pbVPCcidrs = AppendEach(@, vpcCIDRs)]
    /\ provided' = [provided EXCEPT ![w].vpc = vpcCIDRs]
    /\ pc' = [pc EXCEPT ![w] = "add_snat"]
    /\ UNCHANGED <<storeVars, providerVars, signalVars, counterVars, op, in, ret, trace,
                   historyVars>>

\* useExternalSNAT := s.ipamContext.networkClient.UseExternalSNAT()
AddUseExternalSNAT(w) ==
    /\ pc[w] = "add_snat"
    /\ loc' = [loc EXCEPT ![w].useExternalSNAT = useExternalSNAT]
    /\ provided' = [provided EXCEPT ![w].snat = useExternalSNAT, ![w].snatReads = @ + 1]
    /\ pc' = [pc EXCEPT ![w] = IF WithExclusions(useExternalSNAT) THEN "add_excl"
                                ELSE "add_reply"]
    /\ UNCHANGED <<storeVars, providerVars, signalVars, counterVars, op, in, ret, trace,
                   historyVars>>

\* for _, cidr := range s.ipamContext.networkClient.GetExcludeSNATCIDRs() {...}
AddExcludeCIDRs(w) ==
    /\ pc[w] = "add_excl"
    /\ loc' = [loc EXCEPT ![w].pbVPCcidrs = AppendEach(@, excludeSNATCIDRs)]
    /\ provided' = [provided EXCEPT ![w].exclude = excludeSNATCIDRs,
                                    ![w].excludeReads = @ + 1]
    /\ pc' = [pc EXCEPT ![w] = "add_reply"]
    /\ UNCHANGED <<storeVars, providerVars, signalVars, counterVars, op, in, ret, trace,
                   historyVars>>

\* Variant: the reply's flag comes from a second reading of the policy
AddReturnRereads(w) ==
    /\ pc[w] = "add_reply"
    /\ addIPCnt' = Inc(addIPCnt)
    /\ ret' = [ret EXCEPT ![w] = Return(AddNetworkReply(loc[w].err, loc[w].addr,
                    loc[w].deviceNumber, useExternalSNAT, loc[w].pbVPCcidrs))]
    /\ provided' = [provided EXCEPT ![w].snatReads = @ + 1]
    /\ pc' = [pc EXCEPT ![w] = "returned"]
    /\ addDone' = addDone + 1
    /\ UNCHANGED <<storeVars, providerVars, signalVars, delIPCnt, op, in, loc, trace,
                   started, delDone, store0, solo, repeat, caught>>

\* Variant: a handler that holds its reply back once terminating is set
AddReturnUnlessTerminating(w) ==
    /\ pc[w] = "add_reply"
    /\ ~terminating
    /\ addIPCnt' = Inc(addIPCnt)
    /\ ret' = [ret EXCEPT ![w] = Return(AddNetworkReply(loc[w].err, loc[w].addr,
                    loc[w].deviceNumber, loc[w].useExternalSNAT, loc[w].pbVPCcidrs))]
    /\ pc' = [pc EXCEPT ![w] = "returned"]
    /\ addDone' = addDone + 1
    /\ UNCHANGED <<storeVars, providerVars, signalVars, delIPCnt, op, in, loc, trace,
                   provided, started, delDone, store0, solo, repeat,
                   caught>>

\* resp := pb.AddNetworkReply{...}; addIPCnt.Inc(); return &resp, nil
AddReturn(w) ==
    /\ pc[w] = "add_reply"
    /\ addIPCnt' = Inc(addIPCnt)
    /\ ret' = [ret EXCEPT ![w] = Return(AddNetworkReply(loc[w].err, loc[w].addr,
                    loc[w].deviceNumber, loc[w].useExternalSNAT, loc[w].pbVPCcidrs))]
    /\ pc' = [pc EXCEPT ![w] = "returned"]
    /\ addDone' = addDone + 1
    /\ UNCHANGED <<storeVars, providerVars, signalVars, delIPCnt, op, in, loc, trace,
                   provided, started, delDone, store0, solo, repeat,
                   caught>>

\* ------------------------------------------------------------ DelNetwork
\* A datastore holding at most one allocation for each name and namespace
AtMostOnePerPair(store) ==
    \A k1, k2 \in PodKeys :
        /\ store[k1] # NoIP /\ store[k2] # NoIP
        /\ k1.Name = k2.Name /\ k1.Namespace = k2.Namespace
        => k1 = k2

\* Datastore results with no error other than ErrUnknownPod
OnlyUnknownErrors(t) == \A i \in 1..Len(t) : t[i].err \in {Nil, ErrUnknownPod}

\* A DelNetwork for r arriving now is the second of two in sequence for the same
\* pod and container: the call before it was such a DelNetwork, ran with no
\* other step overlapping it on a datastore holding at most one allocation for
\* each name and namespace, met no error other than ErrUnknownPod and has
\* returned, and no call is in progress.
Repeats(r) ==
    /\ solo # 0
    /\ \A v \in Workers : ~InFlight(v)
    /\ pc[solo] = "returned" /\ op[solo] = "del"
    /\ PodInfo(in[solo]) = PodInfo(r)
    /\ ~store0.broken
    /\ AtMostOnePerPair(store0.podsIP)
    /\ OnlyUnknownErrors(trace[solo])

\* Entry and delIPCnt.With(prometheus.Labels{"reason": in.Reason}).Inc()
DelCount(w, r) ==
    /\ StartCall(w)
    /\ delIPCnt' = [delIPCnt EXCEPT ![ReasonLabel(r)] = Inc(@)]
    /\ op' = [op EXCEPT ![w] = "del"]
    /\ in' = [in EXCEPT ![w] = r]
    /\ loc' = [loc EXCEPT ![w] = NoLocals]
    /\ ret' = [ret EXCEPT ![w] = NoReturn]
    /\ trace' = [trace EXCEPT ![w] = <<>>]
    /\ provided' = [provided EXCEPT ![w] = NoProvided]
    /\ pc' = [pc EXCEPT ![w] = "del_unassign"]
    /\ repeat' = Repeats(r)
    /\ UNCHANGED <<storeVars, providerVars, signalVars, addIPCnt, addDone, delDone, caught>>

\* The rest of DelNetwork once its last UnassignPodIPv4Address has returned res:
\* the reply is built from res and returned.
DelReturn(w, res) ==
    /\ ret' = [ret EXCEPT ![w] = Return(DelNetworkReply(res.err, res.addr, res.deviceNumber))]
    /\ pc' = [pc EXCEPT ![w] = "returned"]
    /\ delDone' = [delDone EXCEPT ![in[w].Reason] = @ + 1]

\* s.ipamContext.dataStore.UnassignPodIPv4Address with the request's three fields
DelUnassign(w) ==
    /\ pc[w] = "del_unassign"
    /\ LET res == UnassignPodIPv4Address(PodInfo(in[w])) IN
        /\ podsIP' = res.podsIP
        /\ pool' = res.pool
        /\ UNCHANGED broken
        /\ loc' = [loc EXCEPT ![w].addr = res.addr, ![w].deviceNumber = res.deviceNumber,
                              ![w].err = res.err]
        /\ trace' = [trace EXCEPT ![w] = Append(@, Called(PodInfo(in[w]), res))]
        /\ IF NeedFallback(res.err)
           THEN /\ pc' = [pc EXCEPT ![w] = "del_fallback"]
                /\ UNCHANGED <<ret, delDone>>
           ELSE DelReturn(w, res)
    /\ UNCHANGED <<providerVars, signalVars, counterVars, op, in, provided, started,
                   addDone, store0, solo, repeat,
                   caught>>

\* A retry whose results go to variables of the inner block only, so that the
\* reply is built from the first attempt's results
DelFallbackShadowed(w) ==
    /\ pc[w] = "del_fallback"
    /\ LET res == UnassignPodIPv4Address(FallbackPodInfo(in[w])) IN
        /\ podsIP' = res.podsIP
        /\ pool' = res.pool
        /\ UNCHANGED <<broken, loc>>
        /\ trace' = [trace EXCEPT ![w] = Append(@, Called(FallbackPodInfo(in[w]), res))]
        /\ DelReturn(w, [addr |-> loc[w].addr, deviceNumber |-> loc[w].deviceNumber,
                         err |-> loc[w].err])
    /\ UNCHANGED <<providerVars, signalVars, counterVars, op, in, provided, started,
                   addDone, store0, solo, repeat,
                   caught>>

\* The retry with name and namespace only
DelFallback(w) ==
    /\ pc[w] = "del_fallback"
    /\ LET res == UnassignPodIPv4Address(FallbackPodInfo(in[w])) IN
        /\ podsIP' = res.podsIP
        /\ pool' = res.pool
        /\ UNCHANGED broken
        /\ loc' = [loc EXCEPT ![w].addr = res.addr, ![w].deviceNumber = res.deviceNumber,
                              ![w].err = res.err]
        /\ trace' = [trace EXCEPT ![w] = Append(@, Called(FallbackPodInfo(in[w]), res))]
        /\ DelReturn(w, res)
    /\ UNCHANGED <<providerVars, signalVars, counterVars, op, in, provided, started,
                   addDone, store0, solo, repeat,
                   caught>>

\* ------------------------------------------------------ shutdownListener
\* sig := make(chan os.Signal, 1); signal.Notify(sig, syscall.SIGINT)
NotifySIGINT ==
    /\ lpc = "start"
    /\ notify' = notify \cup {"SIGINT"}
    /\ lpc' = "notify_term"
    /\ UNCHANGED <<storeVars, providerVars, terminating, sig, counterVars, workerVars,
                   historyVars>>

\* signal.Notify(sig, syscall.SIGTERM)
NotifySIGTERM ==
    /\ lpc = "notify_term"
    /\ notify' = notify \cup {"SIGTERM"}
    /\ lpc' = "recv"
    /\ UNCHANGED <<storeVars, providerVars, terminating, sig, counterVars, workerVars,
                   historyVars>>

\* Variant: a receive that does not wait (a select with a default branch)
ReceiveSignalNoWait ==
    /\ lpc = "recv"
    /\ sig' = IF sig # <<>> THEN Tail(sig) ELSE sig
    /\ lpc' = "set"
    /\ UNCHANGED <<storeVars, providerVars, terminating, notify, counterVars, workerVars,
                   historyVars>>

\* <-sig
ReceiveSignal ==
    /\ lpc = "recv"
    /\ sig # <<>>
    /\ sig' = Tail(sig)
    /\ lpc' = "set"
    /\ UNCHANGED <<storeVars, providerVars, terminating, notify, counterVars, workerVars,
                   historyVars>>

\* Variant: the listener waits for the next signal again instead of ending.
SetTerminatingRearm ==
    /\ lpc = "set"
    /\ terminating' = TRUE
    /\ lpc' = "recv"
    /\ caught' = {w \in Workers : InFlight(w)}
    /\ UNCHANGED <<storeVars, providerVars, sig, notify, counterVars, workerVars,
                   started, addDone, delDone, store0, solo,
                   repeat>>

\* Variant: the listener also stops the server, which cancels the calls in flight.
SetTerminatingAndStop ==
    /\ lpc = "set"
    /\ terminating' = TRUE
    /\ lpc' = "exit"
    /\ caught' = {w \in Workers : InFlight(w)}
    /\ pc' = [w \in Workers |-> IF InFlight(w) THEN "idle" ELSE pc[w]]
    /\ UNCHANGED <<storeVars, providerVars, sig, notify, counterVars, op, in, loc, ret,
                   trace, provided, started, addDone, delDone, store0, solo,
                   repeat>>

\* c.setTerminating(), then the goroutine ends
SetTerminating ==
    /\ lpc = "set"
    /\ terminating' = TRUE
    /\ lpc' = "exit"
    /\ caught' = {w \in Workers : InFlight(w)}
    /\ UNCHANGED <<storeVars, providerVars, sig, notify, counterVars, workerVars,
                   started, addDone, delDone, store0, solo,
                   repeat>>

\* ----------------------------------------------------------- environment
\* The operating system raises signal s.  The runtime hands a registered signal
\* to the channel without blocking: it is dropped when the buffer is full.  (An
\* unregistered one ends the process, and with it every behaviour.)
Signal(s) ==
    /\ s \in notify
    /\ sig' = IF Len(sig) < 1 THEN Append(sig, s) ELSE sig
    /\ UNCHANGED <<storeVars, providerVars, terminating, notify, lpc, counterVars,
                   workerVars, historyVars>>

\* An internal fault strikes the datastore: from then on it fails every
\* assignment and every release of a pod it knows.
StoreFault ==
    /\ ~broken
    /\ broken' = TRUE
    /\ solo' = IF \E w \in Workers : InFlight(w) THEN 0 ELSE solo
    /\ store0' = IF solo' = 0 THEN NoSnapshot ELSE store0
    /\ UNCHANGED <<podsIP, pool, providerVars, signalVars, counterVars, workerVars,
                   started, addDone, delDone, repeat, caught>>

\* The steps of the RPC service and of its datastore.
RPCNext ==
    \/ \E w \in Workers, r \in AddRequests : AddAssign(w, r)
    \/ \E w \in Workers : AddVPCcidrs(w)
    \/ \E w \in Workers : AddUseExternalSNAT(w)
    \/ \E w \in Workers : AddExcludeCIDRs(w)
    \/ \E w \in Workers : AddReturn(w)
    \/ \E w \in Workers, r \in DelRequests : DelCount(w, r)
    \/ \E w \in Workers : DelUnassign(w)
    \/ \E w \in Workers : DelFallback(w)
    \/ StoreFault

\* The source-NAT policy is switched while the service runs; an AddNetwork call
\* in progress that has read it already is marked.
PolicyChange ==
    /\ useExternalSNAT' = ~useExternalSNAT
    /\ provided' = [w \in Workers |->
                        IF InFlight(w) /\ provided[w].snatReads > 0
                        THEN [provided[w] EXCEPT !.raced = TRUE] ELSE provided[w]]
    /\ UNCHANGED <<storeVars, vpcCIDRs, excludeSNATCIDRs, signalVars, counterVars, pc, op,
                   in, loc, ret, trace, historyVars>>

\* No call is in progress.
NoCallInProgress == \A w \in Workers : ~InFlight(w)

\* The steps of the RPC service when its caller makes one call at a time.
SeqNext ==
    \/ NoCallInProgress /\ \E w \in Workers, r \in AddRequests : AddAssign(w, r)
    \/ \E w \in Workers : AddVPCcidrs(w)
    \/ \E w \in Workers : AddUseExternalSNAT(w)
    \/ \E w \in Workers : AddExcludeCIDRs(w)
    \/ \E w \in Workers : AddReturn(w)
    \/ NoCallInProgress /\ \E w \in Workers, r \in DelRequests : DelCount(w, r)
    \/ \E w \in Workers : DelUnassign(w)
    \/ \E w \in Workers : DelFallback(w)
    \/ StoreFault

\* The steps of the shutdown listener and of the signals it waits for.
ShutdownNext ==
    \/ NotifySIGINT
    \/ NotifySIGTERM
    \/ ReceiveSignal
    \/ SetTerminating
    \/ \E s \in Signals : Signal(s)

Next == RPCNext \/ ShutdownNext

\* The whole process: the RPC service with the shutdown listener beside it.
Spec == Init /\ [][Next]_vars

\* The RPC service while the shutdown listener has not been scheduled.  The
\* listener and the handlers share no variable, so the handlers reach the same
\* states here as in Spec.
RPCSpec == Init /\ [][RPCNext]_vars

\* The RPC service called one call at a time while the policy may be switched
\* at any moment.
PolicySpec == Init /\ [][SeqNext \/ PolicyChange]_vars

\* The RPC service called one call at a time, after any restart.
SeqSpec == RestartInit /\ [][SeqNext]_vars


\* ================================================================ claims
\* The two datastore keys of a request's pod, written out.
ThreeFieldKey(r) == [Name |-> r.K8S_POD_NAME, Namespace |-> r.K8S_POD_NAMESPACE,
                     Container |-> r.K8S_POD_INFRA_CONTAINER_ID]
TwoFieldKey(r) == [Name |-> r.K8S_POD_NAME, Namespace |-> r.K8S_POD_NAMESPACE,
                   Container |-> ""]

Returned(w, o) == pc[w] = "returned" /\ op[w] = o
Reply(w) == ret[w].reply
LastCall(w) == trace[w][Len(trace[w])]

\* A DelNetwork call of worker w that has returned and that ran alone: no other
\* call and no datastore fault overlapped it, and store0 is the datastore it found.
SoloDetach(w) == solo = w /\ Returned(w, "del")

\* C1: DelNetwork for a pod that has an allocation neither under its
\* three-field key nor under its two-field key replies success = true and
\* leaves the allocations of the datastore as they were.
C1_DetachNeverAttached ==
    \A w \in Workers :
        (/\ SoloDetach(w)
         /\ store0.podsIP[ThreeFieldKey(in[w])] = NoIP
         /\ store0.podsIP[TwoFieldKey(in[w])] = NoIP)
        => /\ Reply(w).Success = TRUE
           /\ podsIP = store0.podsIP

\* C1 witness: such a call has returned after looking up both keys.
C1_Witness ==
    \E w \in Workers :
        /\ SoloDetach(w)
        /\ store0.podsIP[ThreeFieldKey(in[w])] = NoIP
        /\ store0.podsIP[TwoFieldKey(in[w])] = NoIP
        /\ Len(trace[w]) = 2
        /\ Reply(w).Success = TRUE

\* C2: DelNetwork for a pod whose allocation a sound datastore holds under the
\* two-field key only replies success = true with the address and the device
\* number stored under that key, and the allocation is gone afterwards.
C2_DetachAfterRestart ==
    \A w \in Workers :
        (/\ SoloDetach(w)
         /\ ~store0.broken
         /\ store0.podsIP[ThreeFieldKey(in[w])] = NoIP
         /\ store0.podsIP[TwoFieldKey(in[w])] # NoIP)
        => /\ Reply(w).Success = TRUE
           /\ Reply(w).IPv4Addr = store0.podsIP[TwoFieldKey(in[w])]
           /\ Reply(w).DeviceNumber = DeviceOf(store0.podsIP[TwoFieldKey(in[w])])
           /\ podsIP[TwoFieldKey(in[w])] = NoIP

\* C2 witness: the restored allocation of pod-a was released by such a call.
C2_Witness ==
    \E w \in Workers :
        /\ SoloDetach(w)
        /\ ~store0.broken
        /\ store0.podsIP[ThreeFieldKey(in[w])] = NoIP
        /\ store0.podsIP[TwoFieldKey(in[w])] = "10.0.1.5"
        /\ Reply(w).IPv4Addr = "10.0.1.5"
        /\ podsIP[TwoFieldKey(in[w])] = NoIP

\* C3: a DelNetwork reply has success = false exactly when the last
\* UnassignPodIPv4Address of the call returned an error other than
\* ErrUnknownPod; after no error, or ErrUnknownPod, success = true.
C3_DetachSuccessRule ==
    \A w \in Workers :
        Returned(w, "del")
        => /\ Len(trace[w]) >= 1
           /\ Reply(w).Success \in BOOLEAN
           /\ (Reply(w).Success = FALSE) <=> (LastCall(w).err \notin {Nil, ErrUnknownPod})

\* C3 witness: a call whose fallback attempt hit a datastore fault replied
\* success = false.
C3_Witness ==
    \E w \in Workers :
        /\ Returned(w, "del")
        /\ Len(trace[w]) = 2
        /\ LastCall(w).err = ErrOther
        /\ Reply(w).Success = FALSE


\* C4: the VPCcidrs of an AddNetwork reply are the base ranges in the order the
\* provider returned them, followed, only when source NAT is not externally
\* managed, by the exclusion ranges in the order the provider returned them.
C4_RangesOrder ==
    \A w \in Workers :
        Returned(w, "add")
        => /\ provided[w].vpc = vpcCIDRs
           /\ provided[w].snat = useExternalSNAT
           /\ Reply(w).VPCcidrs =
                IF provided[w].snat THEN vpcCIDRs ELSE vpcCIDRs \o excludeSNATCIDRs
           /\ provided[w].snat => provided[w].excludeReads = 0

\* C4 witness: a reply carrying two base ranges and then two exclusion ranges.
C4_Witness ==
    \E w \in Workers :
        /\ Returned(w, "add")
        /\ ~provided[w].snat
        /\ Reply(w).VPCcidrs =
             <<"10.0.0.0/16", "10.1.0.0/16", "192.168.0.0/16", "172.16.0.0/12">>

AddReplyFields ==
    {"Success", "IPv4Addr", "IPv4Subnet", "DeviceNumber", "UseExternalSNAT", "VPCcidrs"}
DelReplyFields == {"Success", "IPv4Addr", "DeviceNumber"}

\* C5: every call that returns hands back a complete reply and a nil error,
\* whatever the datastore returned; an AddNetwork reply has success = true
\* exactly when AssignPodIPv4Address returned no error.
C5_StructuredReply ==
    \A w \in Workers :
        pc[w] = "returned"
        => /\ ret[w].err = Nil
           /\ Reply(w).Success \in BOOLEAN
           /\ op[w] = "add" =>
                /\ DOMAIN Reply(w) = AddReplyFields
                /\ Reply(w).Success <=> (trace[w][1].err = Nil)
           /\ op[w] = "del" => DOMAIN Reply(w) = DelReplyFields

\* C5 witness: an AddNetwork whose assignment returned ErrUnknownPod replied
\* success = false with a nil error.
C5_Witness ==
    \E w \in Workers :
        /\ Returned(w, "add")
        /\ trace[w][1].err = ErrUnknownPod
        /\ Reply(w).Success = FALSE
        /\ ret[w].err = Nil

\* DelNetwork calls in progress whose request carries reason r.
DetachInFlight(r) == {w \in Workers : op[w] = "del" /\ InFlight(w) /\ in[w].Reason = r}

\* C6: addIPCnt is the number of AddNetwork calls that have returned; delIPCnt
\* for reason r is the number of DelNetwork calls with that reason that have
\* returned or are in progress (the counter is incremented on entry), so once no
\* call is in progress it is the number of calls made with reason r.  Each call
\* counts once, whatever its outcome.
C6_CountersPerCall ==
    /\ addIPCnt = addDone
    /\ \A r \in Reasons : delIPCnt[r] = delDone[r] + Cardinality(DetachInFlight(r))

\* C6 witness: a failed AddNetwork and a DelNetwork that took the fallback have
\* both returned and each was counted once.
C6_Witness ==
    \E w1, w2 \in Workers :
        /\ Returned(w1, "add") /\ Reply(w1).Success = FALSE
        /\ Returned(w2, "del") /\ Len(trace[w2]) = 2 /\ in[w2].Reason = "Crash"
        /\ addIPCnt = 1
        /\ delIPCnt = [r \in Reasons |-> IF r = "Crash" THEN 1 ELSE 0]

\* C9: an AddNetwork reply carries the address and the device number that its
\* one AssignPodIPv4Address call, made with the three fields of the request,
\* returned; its UseExternalSNAT is the policy value read during the call and
\* its IPv4Subnet is empty.  In the scenario of address 10.0.1.5 on device 1,
\* base range 10.0.0.0/16, policy false and exclusion range 192.168.0.0/16 the
\* reply is exactly the one expected.
C9_AttachReply ==
    \A w \in Workers :
        Returned(w, "add")
        => /\ Len(trace[w]) = 1
           /\ trace[w][1].pod = ThreeFieldKey(in[w])
           /\ Reply(w).IPv4Addr = trace[w][1].addr
           /\ Reply(w).DeviceNumber = trace[w][1].deviceNumber
           /\ Reply(w).UseExternalSNAT = provided[w].snat
           /\ Reply(w).IPv4Subnet = ""
           /\ (/\ trace[w][1].addr = "10.0.1.5"
               /\ trace[w][1].deviceNumber = 1
               /\ trace[w][1].err = Nil
               /\ provided[w].vpc = <<"10.0.0.0/16">>
               /\ provided[w].snat = FALSE
               /\ provided[w].exclude = <<"192.168.0.0/16">>)
              => Reply(w) = [Success |-> TRUE, IPv4Addr |-> "10.0.1.5", IPv4Subnet |-> "",
                             DeviceNumber |-> 1, UseExternalSNAT |-> FALSE,
                             VPCcidrs |-> <<"10.0.0.0/16", "192.168.0.0/16">>]

\* C9 witness: the scenario, for pod-a in ns1 with container c1.
C9_Witness ==
    \E w \in Workers :
        /\ Returned(w, "add")
        /\ in[w].K8S_POD_NAME = "pod-a" /\ in[w].K8S_POD_INFRA_CONTAINER_ID = "c1"
        /\ trace[w][1].addr = "10.0.1.5" /\ trace[w][1].deviceNumber = 1
        /\ provided[w].vpc = <<"10.0.0.0/16">>
        /\ provided[w].exclude = <<"192.168.0.0/16">>
        /\ Reply(w).Success = TRUE
        /\ Reply(w).VPCcidrs = <<"10.0.0.0/16", "192.168.0.0/16">>

\* C10: DelNetwork makes its first UnassignPodIPv4Address with the three-field
\* key; it makes a second one, with the two-field key, exactly when the first
\* returned ErrUnknownPod, and never a third.
C10_FallbackRule ==
    \A w \in Workers :
        op[w] = "del"
        => /\ pc[w] = "del_unassign" => trace[w] = <<>>
           /\ pc[w] = "del_fallback" =>
                Len(trace[w]) = 1 /\ trace[w][1].err = ErrUnknownPod
           /\ pc[w] = "returned" =>
                /\ Len(trace[w]) \in {1, 2}
                /\ trace[w][1].pod = ThreeFieldKey(in[w])
                /\ (Len(trace[w]) = 2) <=> (trace[w][1].err = ErrUnknownPod)
                /\ Len(trace[w]) = 2 => trace[w][2].pod = TwoFieldKey(in[w])

\* C10 witness: a call whose first attempt failed with another error returned
\* after that single attempt.
C10_Witness ==
    \E w \in Workers :
        /\ Returned(w, "del")
        /\ Len(trace[w]) = 1
        /\ trace[w][1].err = ErrOther


\* C7: terminating is false until the listener, having received a signal, sets
\* it; that step is the only one that changes it, from false to true; it is
\* never set back; no handler step changes it; and once the listener has ended
\* a further signal is never taken from the channel.
C7_TerminatingOnce ==
    /\ [](lpc # "exit" => terminating = FALSE)
    /\ [][terminating' # terminating =>
            /\ terminating = FALSE /\ terminating' = TRUE
            /\ lpc = "set" /\ lpc' = "exit"
            /\ pc' = pc]_vars
    /\ [][terminating => terminating']_vars
    /\ [][lpc = "exit" => lpc' = "exit" /\ terminating' /\ Len(sig') >= Len(sig)]_vars

\* C7 witness: terminating is set, the listener has ended and a second signal
\* sits in the channel.
C7_Witness == terminating /\ lpc = "exit" /\ sig # <<>>

\* The next step of the handler that worker w runs.
HandlerStep(w) ==
    \/ AddVPCcidrs(w)
    \/ AddUseExternalSNAT(w)
    \/ AddExcludeCIDRs(w)
    \/ AddReturn(w)
    \/ DelUnassign(w)
    \/ DelFallback(w)

\* C8: the step that sets terminating changes nothing of the datastore, the
\* providers, the counters or any call (its position, request, locals and
\* reply), and a call in progress can always take its next step, before and
\* after that step alike.
C8_ShutdownFrame ==
    /\ [][terminating' # terminating =>
            UNCHANGED <<storeVars, providerVars, counterVars, workerVars,
                        started, addDone, delDone>>]_vars
    /\ [](\A w \in Workers : InFlight(w) => ENABLED HandlerStep(w))

\* C8 witness: a call that was in progress when terminating was set has
\* returned its reply.
C8_Witness ==
    /\ terminating
    /\ \E w \in caught : pc[w] = "returned" /\ Reply(w).Success = TRUE

\* C11: the address and the device number of a DelNetwork reply are those the
\* last UnassignPodIPv4Address of the call returned: the retry's when the retry
\* was made (the empty address when it found nothing either), the first
\* attempt's otherwise.
C11_ReplyFromLastAttempt ==
    \A w \in Workers :
        Returned(w, "del")
        => /\ Len(trace[w]) >= 1
           /\ Reply(w).IPv4Addr = LastCall(w).addr
           /\ Reply(w).DeviceNumber = Int32(LastCall(w).deviceNumber)
           /\ Len(trace[w]) = 2 =>
                /\ Reply(w).IPv4Addr = trace[w][2].addr
                /\ trace[w][2].err = ErrUnknownPod => Reply(w).IPv4Addr = ""
           /\ Len(trace[w]) = 1 => Reply(w).IPv4Addr = trace[w][1].addr

\* C11 witness: a call whose first attempt found nothing and whose retry
\* released an address replied with the retry's address and device number.
C11_Witness ==
    \E w \in Workers :
        /\ Returned(w, "del")
        /\ Len(trace[w]) = 2
        /\ trace[w][1].addr = ""
        /\ trace[w][2].addr = "10.0.1.5"
        /\ Reply(w).IPv4Addr = "10.0.1.5"
        /\ Reply(w).DeviceNumber = 1

\* The allocations a step removes from the datastore
Removed == {k \in PodKeys : podsIP[k] # NoIP /\ podsIP'[k] = NoIP}

\* A step in which worker w returns a DelNetwork reply naming a released address
Reporting(w) ==
    /\ op[w] = "del" /\ pc[w] # "returned" /\ pc'[w] = "returned"
    /\ ret'[w].reply.IPv4Addr # ""

\* C12: with concurrent AddNetwork and DelNetwork calls, each allocation removed
\* from the datastore is removed by a step of exactly one DelNetwork call, and
\* that call, and no other, returns in that step a reply naming the removed
\* address; conversely every reply that names a released address is returned
\* by the step that removed exactly that allocation, under one of the two keys
\* of the call. So no two calls report the same removal.
C12_ReleasedOnce ==
    /\ [][\A k \in Removed :
            \E w \in Workers :
                /\ Reporting(w)
                /\ ret'[w].reply.IPv4Addr = podsIP[k]
                /\ k \in {ThreeFieldKey(in[w]), TwoFieldKey(in[w])}
                /\ \A v \in Workers : Reporting(v) => v = w]_vars
    /\ [][\A w \in Workers :
            Reporting(w) =>
                \E k \in Removed :
                    /\ Removed = {k}
                    /\ podsIP[k] = ret'[w].reply.IPv4Addr
                    /\ pool'[podsIP[k]] = "free"]_vars

\* C12 witness: two DelNetwork calls for the same pod and container ran
\* concurrently; one replied with the released address, the other with none.
C12_Witness ==
    \E w, v \in Workers :
        /\ w # v /\ solo = 0 /\ ~broken
        /\ Returned(w, "del") /\ Returned(v, "del")
        /\ ThreeFieldKey(in[w]) = ThreeFieldKey(in[v])
        /\ Reply(w).IPv4Addr = "10.0.1.5" /\ Reply(w).Success
        /\ Reply(v).IPv4Addr = "" /\ Reply(v).Success

\* ----------------------------------------------------------- scheduling
\* The Go scheduler runs a goroutine that can run: the listener goroutine takes
\* its next step when that step stays possible.
ListenerFairness == WF_vars(NotifySIGINT \/ NotifySIGTERM \/ ReceiveSignal \/ SetTerminating)

\* The same for the goroutine of each call in progress; each datastore and
\* provider call it makes returns, being one step here.
HandlerFairness == \A w \in Workers : WF_vars(HandlerStep(w))

\* The whole process with a listener goroutine that is scheduled.
ListenerFairSpec == Spec /\ ListenerFairness

\* A start with an empty datastore and two base ranges, under either policy.
LiveInit ==
    /\ Init
    /\ \A k \in PodKeys : podsIP[k] = NoIP
    /\ Len(vpcCIDRs) = 2

\* The whole process, from such a start, with every goroutine scheduled.
FairSpec == LiveInit /\ [][Next]_vars /\ ListenerFairness /\ HandlerFairness

\* C13: with the listener goroutine scheduled, a signal delivered to the
\* channel leads to terminating being true and the listener having ended; and
\* as long as no signal has been delivered the listener cannot pass its receive,
\* terminating is false, and the listener leaves the receive only by taking a
\* delivered signal from the channel.
C13_SignalLeadsToTerminating ==
    /\ (sig # <<>>) ~> (terminating /\ lpc = "exit")
    /\ [](sig = <<>> /\ lpc \notin {"set", "exit"}
            => /\ terminating = FALSE
               /\ ~ENABLED ReceiveSignal
               /\ ~ENABLED SetTerminating)
    /\ [][lpc # lpc' /\ lpc' = "set" => lpc = "recv" /\ sig # <<>> /\ sig' = Tail(sig)]_vars
    /\ [](lpc = "exit" => terminating)

\* C13 witness: a signal was delivered, terminating is true and the listener
\* has ended, the channel being empty again.
C13_Witness == terminating /\ lpc = "exit" /\ sig = <<>> /\ notify = Signals

\* C14: with every goroutine scheduled and every datastore and provider call
\* returning, each AddNetwork or DelNetwork call in progress eventually returns
\* its reply, those in progress while terminating is true included; a call in
\* progress never waits for anything, its next step being always possible.
C14_CallsReturn ==
    /\ \A w \in Workers : InFlight(w) ~> (pc[w] = "returned")
    /\ [](\A w \in Workers : InFlight(w) /\ terminating => ENABLED HandlerStep(w))

\* C14 witness: the only call started so far, a DelNetwork that was in
\* progress when terminating was set, has returned its reply after its retry.
C14_Witness ==
    /\ terminating /\ started = 1
    /\ \E w \in caught : Returned(w, "del") /\ Len(trace[w]) = 2

\* The allocations held at the start of the call that ran alone and gone now
RemovedSinceStart == {k \in PodKeys : store0.podsIP[k] # NoIP /\ podsIP[k] = NoIP}

\* C15: one DelNetwork call removes at most one allocation: no step removes
\* two, the retry is reached only with the datastore as the call found it, and
\* a call that ran alone leaves the datastore as it found it but for at most
\* one allocation; when allocations were held under both the three-field and
\* the two-field key, it removed the three-field one, reported it, made no
\* retry and left the two-field one.
C15_AtMostOneRemoved ==
    /\ [][Cardinality(Removed) <= 1]_vars
    /\ [](\A w \in Workers :
            /\ solo = w /\ pc[w] = "del_fallback" => podsIP = store0.podsIP
            /\ op[w] = "del" =>
                Cardinality({i \in 1..Len(trace[w]) : trace[w][i].err = Nil}) <= 1
            /\ SoloDetach(w) =>
                /\ Cardinality(RemovedSinceStart) <= 1
                /\ \A k \in PodKeys : podsIP[k] \in {store0.podsIP[k], NoIP}
            /\ ( /\ SoloDetach(w) /\ ~store0.broken
                 /\ store0.podsIP[ThreeFieldKey(in[w])] # NoIP
                 /\ store0.podsIP[TwoFieldKey(in[w])] # NoIP )
               => /\ podsIP = [store0.podsIP EXCEPT ![ThreeFieldKey(in[w])] = NoIP]
                  /\ Reply(w).IPv4Addr = store0.podsIP[ThreeFieldKey(in[w])]
                  /\ Len(trace[w]) = 1)

\* C15 witness: a call that found allocations under both keys returned, having
\* removed the three-field one and left the two-field one.
C15_Witness ==
    \E w \in Workers :
        /\ SoloDetach(w) /\ ~store0.broken
        /\ store0.podsIP[ThreeFieldKey(in[w])] = "10.0.2.7"
        /\ store0.podsIP[TwoFieldKey(in[w])] = "10.0.1.5"
        /\ podsIP[ThreeFieldKey(in[w])] = NoIP
        /\ podsIP[TwoFieldKey(in[w])] = "10.0.1.5"
        /\ Reply(w).IPv4Addr = "10.0.2.7"

\* The two keys a DelNetwork call of worker w may look up
KeysOf(w) == {ThreeFieldKey(in[w]), TwoFieldKey(in[w])}

\* A step of the DelNetwork call of worker w
DelStep(w) == op[w] = "del" /\ pc[w] \in {"del_unassign", "del_fallback"} /\ pc'[w] # pc[w]

\* C16: a DelNetwork call looks up only the three-field key of its request and
\* the two-field key of the same name and namespace; its steps leave every
\* other allocation in place, those under another container of the same pod
\* and those of another pod alike, and an address it reports was held under
\* one of those two keys and under no other.
C16_OnlyOwnKeys ==
    /\ [](\A w \in Workers :
            op[w] = "del" => \A i \in 1..Len(trace[w]) : trace[w][i].pod \in KeysOf(w))
    /\ [][\A w \in Workers :
            DelStep(w) =>
                /\ \A k \in PodKeys \ KeysOf(w) : podsIP'[k] = podsIP[k]
                /\ Reporting(w) =>
                    /\ \E k \in KeysOf(w) : podsIP[k] = ret'[w].reply.IPv4Addr
                    /\ \A k \in PodKeys \ KeysOf(w) : podsIP[k] # ret'[w].reply.IPv4Addr]_vars

\* C16 witness: a call for pod-a with container c1 returned having found
\* nothing, pod-a holding an address under container c2 before and after it.
C16_Witness ==
    \E w \in Workers :
        LET other == [Name |-> "pod-a", Namespace |-> "ns1", Container |-> "c2"] IN
        /\ SoloDetach(w)
        /\ in[w].K8S_POD_NAME = "pod-a" /\ in[w].K8S_POD_INFRA_CONTAINER_ID = "c1"
        /\ Len(trace[w]) = 2
        /\ Reply(w).IPv4Addr = "" /\ Reply(w).Success
        /\ store0.podsIP[other] # NoIP
        /\ podsIP[other] = store0.podsIP[other]

\* C17: when DelNetwork is called twice in sequence for the same pod and
\* container, on a datastore that held at most one allocation for each name and
\* namespace and returned no error other than ErrUnknownPod, the second call
\* leaves the datastore as the first left it and replies success with the
\* empty address.
C17_DetachIdempotent ==
    \A w \in Workers :
        SoloDetach(w) /\ repeat
        => /\ podsIP = store0.podsIP
           /\ \A a \in Addrs : pool[a] = "assigned" <=> \E k \in PodKeys : store0.podsIP[k] = a
           /\ Reply(w).Success = TRUE
           /\ Reply(w).IPv4Addr = ""

\* C17 witness: the first of the two calls released the restored address of
\* pod-a, the second call has returned.
C17_Witness ==
    \E w, v \in Workers :
        /\ w # v
        /\ SoloDetach(w) /\ repeat
        /\ Returned(v, "del") /\ Reply(v).IPv4Addr = "10.0.1.5"
        /\ Reply(w).IPv4Addr = "" /\ Reply(w).Success

\* C18: an AddNetwork call reads the source-NAT policy once and uses the value
\* read both as the reply's flag and to decide on the exclusion ranges: in
\* every reply, the policy being switched during the call or not, a true flag
\* comes with exactly the base ranges read in the call and no reading of the
\* exclusion ranges, a false flag with the base ranges followed by the
\* exclusion ranges read, once, in the call.
C18_PolicyReadOnce ==
    \A w \in Workers :
        Returned(w, "add")
        => /\ provided[w].snatReads = 1
           /\ Reply(w).UseExternalSNAT = provided[w].snat
           /\ Reply(w).UseExternalSNAT = TRUE =>
                /\ Reply(w).VPCcidrs = provided[w].vpc
                /\ provided[w].excludeReads = 0
           /\ Reply(w).UseExternalSNAT = FALSE =>
                /\ Reply(w).VPCcidrs = provided[w].vpc \o provided[w].exclude
                /\ provided[w].excludeReads = 1

\* C18 witness: the policy was switched to true after the call had read false;
\* the reply carries false and the exclusion ranges.
C18_Witness ==
    \E w \in Workers :
        /\ Returned(w, "add")
        /\ provided[w].raced
        /\ useExternalSNAT = TRUE
        /\ Reply(w).UseExternalSNAT = FALSE
        /\ Reply(w).VPCcidrs =
             <<"10.0.0.0/16", "10.1.0.0/16", "192.168.0.0/16", "172.16.0.0/12">>

====
